---- MODULE Spec2Model ----
(***************************************************************************)
(* State-machine model of src/components/image-uploader.tsx: the           *)
(* controlled ImageUploader component, its object-URL manager              *)
(* (useObjectURLs), its validator (useFileValidation, isAcceptedType) and  *)
(* its three handlers (handleFileSelect, handleDelete, handleDragEnd),     *)
(* together with the owner that holds the `images` state and re-renders.   *)
(*                                                                         *)
(* Strings of the program are sequences of one-character strings, so that  *)
(* trim / toLowerCase / split / startsWith / endsWith are computed.        *)
(* A File is named by a key ("photo", "big", "doc"); its name, declared    *)
(* type and size are FileName, FileType and FileSize.                      *)
(***************************************************************************)
EXTENDS Integers, Sequences, FiniteSets, TLC

(* ------------------------------ bounds -------------------------------- *)

\* Largest number of files in one selection (one change event of the input).
MaxBatch == 3
\* Largest number of object URLs (and ids) created over one run.
MaxUrls == 2
\* Largest number of times the owner re-renders with a new onError callback.
MaxOnErrorChanges == 1
\* Largest number of items the owner supplies in `images` at mount.
MaxOwnerItems == 1

(* --------------------------- JS primitives ---------------------------- *)

\* `undefined` for the optional numeric props (maxFiles?: number).
Undefined == -1

\* JS Infinity (remainingSlots when maxFiles is falsy): above every length.
Infinity == 999999

\* JS truthiness of an optional number: undefined and 0 are falsy.
Truthy(n) == n # Undefined /\ n # 0

Max(a, b) == IF a >= b THEN a ELSE b

UpperCase == <<"A","B","C","D","E","F","G","H","I","J","K","L","M",
               "N","O","P","Q","R","S","T","U","V","W","X","Y","Z">>
LowerCase == <<"a","b","c","d","e","f","g","h","i","j","k","l","m",
               "n","o","p","q","r","s","t","u","v","w","x","y","z">>

\* One character of String.prototype.toLowerCase.
LowerChar(c) ==
    IF \E i \in 1..Len(UpperCase) : UpperCase[i] = c
    THEN LowerCase[CHOOSE i \in 1..Len(UpperCase) : UpperCase[i] = c]
    ELSE c

\* String.prototype.toLowerCase
toLowerCase(s) == [i \in 1..Len(s) |-> LowerChar(s[i])]

\* String.prototype.startsWith / endsWith
startsWith(s, p) == Len(p) <= Len(s) /\ SubSeq(s, 1, Len(p)) = p
endsWith(s, p) == Len(p) <= Len(s) /\ SubSeq(s, Len(s) - Len(p) + 1, Len(s)) = p

RECURSIVE trimStart(_)
trimStart(s) == IF s # <<>> /\ Head(s) = " " THEN trimStart(Tail(s)) ELSE s

RECURSIVE trimEnd(_)
trimEnd(s) ==
    IF s # <<>> /\ s[Len(s)] = " " THEN trimEnd(SubSeq(s, 1, Len(s) - 1)) ELSE s

\* String.prototype.trim
trim(s) == trimEnd(trimStart(s))

\* String.prototype.split(sep) for a one-character separator: the pieces
\* between separators, empty pieces kept ("a,".split(",") is ["a", ""]).
RECURSIVE splitFrom(_, _, _)
splitFrom(s, sep, cur) ==
    IF s = <<>> THEN <<cur>>
    ELSE IF Head(s) = sep THEN <<cur>> \o splitFrom(Tail(s), sep, <<>>)
    ELSE splitFrom(Tail(s), sep, Append(cur, Head(s)))

split(s, sep) == splitFrom(s, sep, <<>>)

(* ------------------------------- files -------------------------------- *)

\* The File objects a selection can hold.
Files == {"photo", "big", "doc"}

\* file.name
FileName(f) ==
    CASE f = "photo" -> <<"p","h","o","t","o",".","P","N","G">>
      [] f = "big"   -> <<"b","i","g",".","j","p","g">>
      [] f = "doc"   -> <<"d","o","c",".","p","d","f">>
      [] f = "untyped" -> <<"p","h","o","t","o",".","j","p","g">>

\* file.type (the declared MIME type)
FileType(f) ==
    CASE f = "photo" -> <<"i","m","a","g","e","/","p","n","g">>
      [] f = "big"   -> <<"i","m","a","g","e","/","j","p","e","g">>
      [] f = "doc"   -> <<"a","p","p","l","i","c","a","t","i","o","n","/","p","d","f">>
      [] f = "untyped" -> <<>>

\* file.size in bytes
FileSize(f) ==
    CASE f = "photo" -> 1
      [] f = "big"   -> 3
      [] f = "doc"   -> 1
      [] f = "untyped" -> 1

\* Marks an ErrorPayload without a `file` field.
NoFile == "no file"

\* The accept strings the owner configures.
AcceptImageAny == <<"i","m","a","g","e","/","*">>
AcceptDotPng == <<".","p","n","g">>
AcceptStrings == {AcceptImageAny, AcceptDotPng}

\* The sizes, in bytes, the owner configures as maxFileSize.
MaxFileSizes == {0, 1}

(* ----------------------------- validation ----------------------------- *)

\* One pattern of the accept list against a file (the callback of `some`).
patternMatches(file, pattern) ==
    IF pattern = <<"*","/","*">> THEN TRUE
    ELSE IF endsWith(pattern, <<"/","*">>)
         THEN startsWith(FileType(file), Append(split(pattern, "/")[1], "/"))
    ELSE IF startsWith(pattern, <<".">>)
         THEN endsWith(toLowerCase(FileName(file)), pattern)
    ELSE FileType(file) = pattern

\* isAcceptedType(file, acceptedTypes)
isAcceptedType(file, acceptedTypes) ==
    IF trim(acceptedTypes) = <<>> THEN TRUE
    ELSE LET trimmed == trim(acceptedTypes)
             parts == split(trimmed, ",")
             acceptedPatterns == [i \in 1..Len(parts) |-> toLowerCase(trim(parts[i]))]
         IN  IF trimmed = AcceptImageAny
             THEN startsWith(FileType(file), <<"i","m","a","g","e","/">>)
             ELSE \E i \in 1..Len(acceptedPatterns) :
                      patternMatches(file, acceptedPatterns[i])

\* The size test of validateFile: `maxFileSize && file.size > maxFileSize`.
tooLarge(file, maxSize) == Truthy(maxSize) /\ FileSize(file) > maxSize

\* useFileValidation.validateFile: { isValid, error? }
validateFile(file, maxSize, acceptedTypes) ==
    IF tooLarge(file, maxSize)
    THEN [isValid |-> FALSE, error |-> [code |-> "FILE_TOO_LARGE", file |-> file]]
    ELSE IF ~isAcceptedType(file, acceptedTypes)
    THEN [isValid |-> FALSE, error |-> [code |-> "INVALID_TYPE", file |-> file]]
    ELSE [isValid |-> TRUE, error |-> [code |-> "NONE", file |-> file]]

(* ------------------------------- state -------------------------------- *)

VARIABLES
    images,            \* the `images` prop of the current render (what the handlers close over)
    owner,             \* the owner's state: the last sequence given to onImagesChange
    generatedUrlsRef,  \* useObjectURLs' Set of URLs, in insertion order
    revokeCalls,       \* the browser: per URL, the number of URL.revokeObjectURL calls
    nextUrl,           \* the number of URLs URL.createObjectURL has returned
    nextId,            \* the number of ids generateId has returned
    mounted,           \* whether the component is mounted
    onError,           \* the identity of the onError callback of the current render
    maxFiles,          \* prop maxFiles (Undefined when not given)
    maxFileSize,       \* prop maxFileSize
    acceptedFileTypes, \* prop acceptedFileTypes
    disabled,          \* prop disabled
    last               \* what the last handler or effect did (its outward calls)

vars == <<images, owner, generatedUrlsRef, revokeCalls, nextUrl, nextId, mounted,
          onError, maxFiles, maxFileSize, acceptedFileTypes, disabled, last>>

props == <<maxFiles, maxFileSize, acceptedFileTypes, disabled>>

Range(s) == {s[i] : i \in 1..Len(s)}

\* The n-th URL of URL.createObjectURL (each call returns a new blob: URL).
BlobUrl(n) == <<"blob", n>>
\* A preview URL the owner made itself for an item it supplies.
OwnerUrl(k) == <<"ext", k>>
\* generateId(): crypto.randomUUID(), or Date.now() with a random suffix;
\* modelled as never repeating.
generateId(n) == <<"uuid", n>>
\* The id of an item the owner supplies.
OwnerId(k) == <<"owner", k>>
\* `null` for DragEndEvent.over, and the id field of a step without one.
NoId == <<"null", 0>>

AllUrls == {BlobUrl(n) : n \in 1..MaxUrls} \cup {OwnerUrl(k) : k \in 1..MaxOwnerItems}
AllIds == {generateId(n) : n \in 1..MaxUrls} \cup {OwnerId(k) : k \in 1..MaxOwnerItems}

\* An ImageFile the owner supplies in `images`: its preview was not made by
\* this component's createObjectURL.
OwnerItem(k) == [id |-> OwnerId(k), file |-> "photo", preview |-> OwnerUrl(k)]

\* All sequences over Files of length at most MaxBatch (e.target.files).
Batches == UNION {[1..n -> Files] : n \in 0..MaxBatch}

\* One call of a callback prop: onError(payload) or onImagesChange(sequence).
OnErrorCall(error) == [fn |-> "onError", arg |-> error]
OnImagesChangeCall(seq) == [fn |-> "onImagesChange", arg |-> seq]

\* The onError calls for a sequence of payloads, in its order.
OnErrorCalls(errors) == [i \in 1..Len(errors) |-> OnErrorCall(errors[i])]

\* The record of one step's outward calls; `calls` are the calls of the
\* callback props in the order the step made them.
Step(op, pre, files, id, over, errors, changes, revoked, created, warns, calls) ==
    [op |-> op, pre |-> pre, files |-> files, id |-> id, over |-> over,
     errors |-> errors, changes |-> changes, revoked |-> revoked,
     created |-> created, warns |-> warns, calls |-> calls]

Init ==
    /\ \E k \in 0..MaxOwnerItems : images = [i \in 1..k |-> OwnerItem(i)]
    /\ owner = images
    /\ generatedUrlsRef = <<>>
    /\ revokeCalls = [u \in AllUrls |-> 0]
    /\ nextUrl = 0
    /\ nextId = 0
    /\ mounted = TRUE
    /\ onError = 0
    /\ maxFiles \in {Undefined, 0, 2}
    /\ maxFileSize \in MaxFileSizes
    /\ acceptedFileTypes \in AcceptStrings
    /\ disabled \in BOOLEAN
    /\ last = Step("mount", <<>>, <<>>, NoId, NoId, <<>>, <<>>, <<>>, <<>>, 0, <<>>)

(* ------------------------- useObjectURLs ------------------------------ *)

\* The ErrorPayload of a failed release.
UnknownError == [code |-> "UNKNOWN", file |-> NoFile]

\* safeRevokeObjectURL(url, onError): one URL.revokeObjectURL call; when it
\* throws, one console.warn and one call of the sink.  `failing` is the set
\* of URLs for which the browser's call throws in this step.
safeRevokeObjectURL(url, failing) ==
    [revoked |-> <<url>>,
     warns |-> IF url \in failing THEN 1 ELSE 0,
     sink |-> IF url \in failing THEN 1 ELSE 0]

\* revokeObjectURL without its `has` test: every URL given is revoked.
revokeObjectURL_NoHasTest(url, tracked, failing) ==
    LET r == safeRevokeObjectURL(url, failing)
    IN  [tracked |-> SelectSeq(tracked, LAMBDA u : u # url),
         revoked |-> r.revoked, warns |-> r.warns, sink |-> r.sink]

\* revokeObjectURL that keeps the URL in the Set when the revoke call threw.
revokeObjectURL_KeepOnFailure(url, tracked, failing) ==
    IF url \in Range(tracked)
    THEN LET r == safeRevokeObjectURL(url, failing)
         IN  [tracked |-> IF url \in failing THEN tracked
                          ELSE SelectSeq(tracked, LAMBDA u : u # url),
              revoked |-> r.revoked, warns |-> r.warns, sink |-> r.sink]
    ELSE [tracked |-> tracked, revoked |-> <<>>, warns |-> 0, sink |-> 0]

\* useObjectURLs.revokeObjectURL(url, onError): only a tracked URL is
\* revoked, and it is dropped from the Set whether or not the call threw.
revokeObjectURL(url, tracked, failing) ==
    IF url \in Range(tracked)
    THEN LET r == safeRevokeObjectURL(url, failing)
         IN  [tracked |-> SelectSeq(tracked, LAMBDA u : u # url),
              revoked |-> r.revoked, warns |-> r.warns, sink |-> r.sink]
    ELSE [tracked |-> tracked, revoked |-> <<>>, warns |-> 0, sink |-> 0]

\* cleanup that clears the Set without revoking what it holds.
cleanup_ClearOnly(tracked, failing) ==
    [tracked |-> <<>>, revoked |-> <<>>, warns |-> 0, sink |-> 0]

\* useObjectURLs.cleanup(onError): every tracked URL is revoked, in the
\* Set's order, then the Set is cleared.
cleanup(tracked, failing) ==
    [tracked |-> <<>>,
     revoked |-> tracked,
     warns |-> Cardinality(Range(tracked) \cap failing),
     sink |-> Cardinality(Range(tracked) \cap failing)]

\* The browser's count of revoke calls after the calls `revoked` (distinct URLs).
Revoke(calls, revoked) ==
    [u \in AllUrls |-> calls[u] + Cardinality({i \in 1..Len(revoked) : revoked[i] = u})]

\* n copies of the ErrorPayload e.
Repeat(e, n) == [i \in 1..n |-> e]

(* -------------------------- handleFileSelect -------------------------- *)

\* validateFile on every file and configuration of the model, computed once.
validation ==
    [f \in Files |-> [m \in MaxFileSizes |-> [a \in AcceptStrings |->
        validateFile(f, m, a)]]]

\* The files of the batch that validateFile accepts, in input order.
validFilesOf(files, maxSize, acceptedTypes) ==
    SelectSeq(files, LAMBDA f : validation[f][maxSize][acceptedTypes].isValid)

\* validationErrors in the reverse of the input order.
validationErrors_Reversed(files, maxSize, acceptedTypes) ==
    LET rejected == SelectSeq(files,
                        LAMBDA f : ~validation[f][maxSize][acceptedTypes].isValid)
    IN  [i \in 1..Len(rejected) |->
            validation[rejected[Len(rejected) + 1 - i]][maxSize][acceptedTypes].error]

\* The validation errors of the batch, in input order.
validationErrors(files, maxSize, acceptedTypes) ==
    LET rejected == SelectSeq(files,
                        LAMBDA f : ~validation[f][maxSize][acceptedTypes].isValid)
    IN  [i \in 1..Len(rejected) |-> validation[rejected[i]][maxSize][acceptedTypes].error]

\* remainingSlots that does not count the items the sequence already holds.
remainingSlots_IgnoreCount(limit, currentCount) ==
    IF Truthy(limit) THEN limit ELSE Infinity

\* remainingSlots = maxFiles ? Math.max(0, maxFiles - currentCount) : Infinity
remainingSlots(limit, currentCount) ==
    IF Truthy(limit) THEN Max(0, limit - currentCount) ELSE Infinity

\* filesToAdd that keeps the last remainingSlots files instead of the first.
filesToAdd_KeepLast(validFiles, slots) ==
    IF Len(validFiles) > slots
    THEN SubSeq(validFiles, Len(validFiles) - slots + 1, Len(validFiles))
    ELSE validFiles

\* filesToAdd: validFiles, cut to the first remainingSlots when there are more.
filesToAdd(validFiles, slots) ==
    IF Len(validFiles) > slots THEN SubSeq(validFiles, 1, slots) ELSE validFiles

MaxFilesExceeded == [code |-> "MAX_FILES_EXCEEDED", file |-> NoFile]

\* newImages that gives every item of the batch the same, first, URL.
newImages_SharedUrl(files, idBase, urlBase) ==
    [i \in 1..Len(files) |->
        [id |-> generateId(idBase + i), file |-> files[i], preview |-> BlobUrl(urlBase + 1)]]

\* newImages: filesToAdd.map(file => ({ id: generateId(), file, preview: createObjectURL(file) }))
newImages(files, idBase, urlBase) ==
    [i \in 1..Len(files) |->
        [id |-> generateId(idBase + i), file |-> files[i], preview |-> BlobUrl(urlBase + i)]]

\* handleFileSelect(files) against the render's `images`: the errors it
\* reports, in order, the files it keeps and whether it calls onImagesChange.
handleFileSelect(files, imgs) ==
    LET validFiles == validFilesOf(files, maxFileSize, acceptedFileTypes)
        errors == validationErrors(files, maxFileSize, acceptedFileTypes)
        slots == remainingSlots(maxFiles, Len(imgs))
        kept == filesToAdd(validFiles, slots)
    IN  IF Len(files) = 0 \/ disabled
        THEN [errors |-> <<>>, kept |-> <<>>, deliver |-> FALSE]
        ELSE IF Len(validFiles) = 0
        THEN [errors |-> errors, kept |-> <<>>, deliver |-> FALSE]
        ELSE IF slots <= 0
        THEN [errors |-> Append(errors, MaxFilesExceeded), kept |-> <<>>, deliver |-> FALSE]
        ELSE [errors |-> IF Len(validFiles) > slots
                         THEN Append(errors, MaxFilesExceeded) ELSE errors,
              kept |-> kept, deliver |-> TRUE]

\* The change event of the file input: Dropzone.handleFileChange calls
\* onFileSelect = handleFileSelect with the selected files.
HandleFileSelect(files) ==
    /\ mounted
    /\ \E r \in {handleFileSelect(files, images)} :
       \E added \in {newImages(r.kept, nextId, nextUrl)} :
         LET urls == [i \in 1..Len(added) |-> added[i].preview]
         IN  /\ nextUrl + Len(r.kept) <= MaxUrls
             /\ generatedUrlsRef' = generatedUrlsRef \o urls
             /\ nextUrl' = nextUrl + Len(r.kept)
             /\ nextId' = nextId + Len(r.kept)
             /\ owner' = IF r.deliver THEN images \o added ELSE owner
             /\ last' = Step("add", images, files, NoId, NoId, r.errors,
                             IF r.deliver THEN <<images \o added>> ELSE <<>>,
                             <<>>, urls, 0,
                             OnErrorCalls(r.errors) \o
                                 IF r.deliver THEN <<OnImagesChangeCall(images \o added)>>
                                 ELSE <<>>)
    /\ UNCHANGED <<images, revokeCalls, mounted, onError, props>>

(* ----------------------------- handleDelete --------------------------- *)

\* images.find(img => img.id === id): the first item with that id.
findIndex(imgs, id) ==
    IF \E i \in 1..Len(imgs) : imgs[i].id = id
    THEN CHOOSE i \in 1..Len(imgs) :
             /\ imgs[i].id = id
             /\ \A j \in 1..(i - 1) : imgs[j].id # id
    ELSE -1

\* handleDelete that filters the sequence without releasing the preview.
handleDelete_NoRevoke(id, imgs, tracked, failing) ==
    [tracked |-> tracked, revoked |-> <<>>, warns |-> 0, errors |-> <<>>,
     changes |-> <<SelectSeq(imgs, LAMBDA img : img.id # id)>>]

\* handleDelete(id) against the render's `images`.
handleDelete(id, imgs, tracked, failing) ==
    LET idx == findIndex(imgs, id)
        r == IF idx >= 0
             THEN revokeObjectURL(imgs[idx].preview, tracked, failing)
             ELSE [tracked |-> tracked, revoked |-> <<>>, warns |-> 0, sink |-> 0]
    IN  [tracked |-> r.tracked, revoked |-> r.revoked, warns |-> r.warns,
         errors |-> Repeat(UnknownError, r.sink),
         changes |-> <<SelectSeq(imgs, LAMBDA img : img.id # id)>>]

\* A click on an item's delete button, which is rendered only when
\* showDeleteButton = !disabled.
HandleDelete(id) ==
    /\ mounted
    /\ ~disabled
    /\ \E failing \in SUBSET Range(generatedUrlsRef) :
         \E r \in {handleDelete(id, images, generatedUrlsRef, failing)} :
             /\ generatedUrlsRef' = r.tracked
             /\ revokeCalls' = Revoke(revokeCalls, r.revoked)
             /\ owner' = r.changes[Len(r.changes)]
             /\ last' = Step("delete", images, <<>>, id, NoId, r.errors, r.changes,
                             r.revoked, <<>>, r.warns,
                             OnErrorCalls(r.errors) \o
                                 [i \in 1..Len(r.changes) |-> OnImagesChangeCall(r.changes[i])])
    /\ UNCHANGED <<images, nextUrl, nextId, mounted, onError, props>>

(* ----------------------------- handleDragEnd -------------------------- *)

\* arrayMove that exchanges the two elements instead of shifting the ones between.
arrayMove_Swap(array, from, to) ==
    [i \in 1..Len(array) |->
        IF i = from THEN array[to] ELSE IF i = to THEN array[from] ELSE array[i]]

\* arrayMove(array, from, to) of @dnd-kit/sortable: the element at `from`
\* is taken out and put back at `to` (indices from 1 here).
arrayMove(array, from, to) ==
    LET without == SubSeq(array, 1, from - 1) \o SubSeq(array, from + 1, Len(array))
    IN  SubSeq(without, 1, to - 1) \o <<array[from]>> \o SubSeq(without, to, Len(without))

\* ImageUploaderRoot.handleDragEnd({ active, over }): the sequences it gives
\* to onImagesChange (none when the drop is ignored).
handleDragEnd(active, over, imgs) ==
    LET oldIndex == findIndex(imgs, active)
        newIndex == findIndex(imgs, over)
    IN  IF over = NoId \/ active = over THEN <<>>
        ELSE IF oldIndex >= 0 /\ newIndex >= 0 /\ oldIndex # newIndex
        THEN <<arrayMove(imgs, oldIndex, newIndex)>>
        ELSE <<>>

\* The end of a drag: the sortable listeners are on the drag handle when
\* showDragHandle, and on the item's root otherwise, so a drop can arrive
\* whatever `disabled` is.
HandleDragEnd(active, over) ==
    /\ mounted
    /\ \E changes \in {handleDragEnd(active, over, images)} :
         /\ owner' = IF changes # <<>> THEN changes[1] ELSE owner
         /\ last' = Step("move", images, <<>>, active, over, <<>>, changes, <<>>, <<>>, 0,
                         [i \in 1..Len(changes) |-> OnImagesChangeCall(changes[i])])
    /\ UNCHANGED <<images, generatedUrlsRef, revokeCalls, nextUrl, nextId,
                   mounted, onError, props>>

(* ------------------------ renders and effects ------------------------- *)

\* The owner re-renders with its current state and the same onError.
Render ==
    /\ mounted
    /\ images # owner
    /\ images' = owner
    /\ last' = Step("render", images, <<>>, NoId, NoId, <<>>, <<>>, <<>>, <<>>, 0, <<>>)
    /\ UNCHANGED <<owner, generatedUrlsRef, revokeCalls, nextUrl, nextId,
                   mounted, onError, props>>

\* The owner re-renders with disabled = true (say, while it uploads); the
\* other props and onError stay as they are.
RenderDisabled ==
    /\ mounted
    /\ ~disabled
    /\ disabled' = TRUE
    /\ images' = owner
    /\ last' = Step("render", images, <<>>, NoId, NoId, <<>>, <<>>, <<>>, <<>>, 0, <<>>)
    /\ UNCHANGED <<owner, generatedUrlsRef, revokeCalls, nextUrl, nextId,
                   mounted, onError, maxFiles, maxFileSize, acceptedFileTypes>>

\* The destroy function of the component's effect (deps [cleanup, onError]):
\* cleanup(error => onError?.({ code: "UNKNOWN", ... })).
componentEffectDestroy(tracked, failing) ==
    LET r == cleanup(tracked, failing)
    IN  [tracked |-> r.tracked, revoked |-> r.revoked, warns |-> r.warns,
         errors |-> Repeat(UnknownError, r.sink)]

\* The destroy function of useObjectURLs' effect (deps [cleanup]):
\* cleanup(error => console.warn('Cleanup error:', error)).
hookEffectDestroy(tracked, failing) ==
    LET r == cleanup(tracked, failing)
    IN  [tracked |-> r.tracked, revoked |-> r.revoked, warns |-> r.warns + r.sink,
         errors |-> <<>>]

\* The owner re-renders with a new onError callback (an inline arrow
\* function is a new one on every render): the dependency onError of the
\* component's effect changed, so React runs the effect's destroy function
\* and sets the effect up again.
RenderNewOnError ==
    /\ mounted
    /\ onError < MaxOnErrorChanges
    /\ onError' = onError + 1
    /\ images' = owner
    /\ \E failing \in SUBSET Range(generatedUrlsRef) :
         \E r \in {componentEffectDestroy(generatedUrlsRef, failing)} :
             /\ generatedUrlsRef' = r.tracked
             /\ revokeCalls' = Revoke(revokeCalls, r.revoked)
             /\ last' = Step("rerender", images, <<>>, NoId, NoId, r.errors, <<>>,
                             r.revoked, <<>>, r.warns, OnErrorCalls(r.errors))
    /\ UNCHANGED <<owner, nextUrl, nextId, mounted, props>>

\* Unmount: React runs the destroy functions of both effects, in the order
\* the hooks were called: useObjectURLs' first, then the component's.
Unmount ==
    /\ mounted
    /\ mounted' = FALSE
    /\ \E failing \in SUBSET Range(generatedUrlsRef) :
         LET r1 == hookEffectDestroy(generatedUrlsRef, failing)
             r2 == componentEffectDestroy(r1.tracked, failing)
         IN  /\ generatedUrlsRef' = r2.tracked
             /\ revokeCalls' = Revoke(Revoke(revokeCalls, r1.revoked), r2.revoked)
             /\ last' = Step("unmount", images, <<>>, NoId, NoId, r1.errors \o r2.errors,
                             <<>>, r1.revoked \o r2.revoked, <<>>, r1.warns + r2.warns,
                             OnErrorCalls(r1.errors \o r2.errors))
    /\ UNCHANGED <<images, owner, nextUrl, nextId, onError, props>>

\* The owner has re-rendered since its state last changed, so the handlers
\* of the current render close over the owner's current sequence.
Synced == images = owner

\* Every event is handled by an up-to-date render: the owner applies each
\* delivered sequence (onImagesChange = setImages) and React re-renders
\* before the next event is dispatched.
Next ==
    \/ \E files \in Batches : Synced /\ HandleFileSelect(files)
    \/ \E id \in AllIds : Synced /\ HandleDelete(id)
    \/ \E active \in AllIds : \E over \in AllIds \cup {NoId} :
          Synced /\ HandleDragEnd(active, over)
    \/ Render
    \/ RenderDisabled
    \/ RenderNewOnError
    \/ Unmount

Spec == Init /\ [][Next]_vars

\* Events may also reach the handlers of a render that is out of date: two
\* callbacks can run against the same `images` before the owner re-rendered.
NextStale ==
    \/ \E files \in Batches : HandleFileSelect(files)
    \/ \E id \in AllIds : HandleDelete(id)
    \/ \E active \in AllIds : \E over \in AllIds \cup {NoId} : HandleDragEnd(active, over)
    \/ Render
    \/ RenderDisabled
    \/ RenderNewOnError
    \/ Unmount

\* The out-of-date renders are explored for one validation configuration
\* (the default accept string, a size bound of one byte).
InitStale == Init /\ maxFileSize = 1 /\ acceptedFileTypes = AcceptImageAny

SpecStale == InitStale /\ [][NextStale]_vars

(* ------------------------ validateFile alone -------------------------- *)

\* The File objects validateFile is called with on its own: those of a
\* selection and one whose type the browser could not tell (file.type is
\* the empty string), named photo.jpg.
ValidatedFiles == Files \cup {"untyped"}

\* Accept strings: a universal wildcard, a list with a trailing comma, a
\* list with a space and an upper-case extension, a wildcard subtype, an
\* upper-case MIME type, a blank string, a list of two MIME types.
AcceptAny == <<"*","/","*">>
AcceptPngTrailingComma == <<"i","m","a","g","e","/","p","n","g",",">>
AcceptPngOrPdfExt == <<"i","m","a","g","e","/","p","n","g",","," ",".","P","D","F">>
AcceptApplicationAny == <<"a","p","p","l","i","c","a","t","i","o","n","/","*">>
AcceptUpperPng == <<"I","M","A","G","E","/","P","N","G">>
AcceptBlank == <<" ">>
AcceptJpegOrGif == <<"i","m","a","g","e","/","j","p","e","g",",",
                     "i","m","a","g","e","/","g","i","f">>
AcceptLists == AcceptStrings \cup
    {AcceptAny, AcceptPngTrailingComma, AcceptPngOrPdfExt, AcceptApplicationAny,
     AcceptUpperPng, AcceptBlank, AcceptJpegOrGif}

\* options.maxFileSize of validateFile: not given, 0, one byte.
ValidatedSizes == {Undefined} \cup MaxFileSizes

\* The options of validateFile are drawn at the start; nothing else exists.
InitValidate ==
    /\ images = <<>>
    /\ owner = <<>>
    /\ generatedUrlsRef = <<>>
    /\ revokeCalls = [u \in AllUrls |-> 0]
    /\ nextUrl = 0
    /\ nextId = 0
    /\ mounted = TRUE
    /\ onError = 0
    /\ maxFiles = Undefined
    /\ maxFileSize \in ValidatedSizes
    /\ acceptedFileTypes \in AcceptLists
    /\ disabled = FALSE
    /\ last = Step("mount", <<>>, <<>>, NoId, NoId, <<>>, <<>>, <<>>, <<>>, 0, <<>>)

\* One call validateFile(file, { maxFileSize, acceptedFileTypes }): its
\* return value is recorded as the step's errors (none when isValid).
ValidateFile(file) ==
    /\ \E r \in {validateFile(file, maxFileSize, acceptedFileTypes)} :
         last' = Step("validate", images, <<file>>, NoId, NoId,
                      IF r.isValid THEN <<>> ELSE <<r.error>>, <<>>, <<>>, <<>>, 0, <<>>)
    /\ UNCHANGED <<images, owner, generatedUrlsRef, revokeCalls, nextUrl, nextId,
                   mounted, onError, props>>

NextValidate == \E file \in ValidatedFiles : ValidateFile(file)

SpecValidate == InitValidate /\ [][NextValidate]_vars

(* ------------------------------ claims -------------------------------- *)

\* The URLs createObjectURL has returned so far.
CreatedUrls == {BlobUrl(n) : n \in 1..nextUrl}

\* The number of errors with this code among the errors of a step.
ErrorCount(errors, code) == Cardinality({i \in 1..Len(errors) : errors[i].code = code})

\* The last step ran handleFileSelect on an enabled component.
AddRan == last.op = "add" /\ ~disabled

\* C1 (as claimed, for the items this component's Add created): Remove of an
\* id that is in the sequence makes exactly one URL.revokeObjectURL call,
\* on that item's preview, and delivers a sequence without that id; Remove
\* of an id that is not in the sequence makes no revoke call and delivers
\* the sequence unchanged.
C1_RemoveReleasesExactlyOneHandle ==
    last.op = "delete" =>
        IF \E i \in 1..Len(last.pre) : last.pre[i].id = last.id
        THEN \A i \in 1..Len(last.pre) :
                (last.pre[i].id = last.id /\ last.pre[i].preview \in CreatedUrls) =>
                    /\ last.revoked = <<last.pre[i].preview>>
                    /\ Len(last.changes) = 1
                    /\ \A j \in 1..Len(last.changes[1]) : last.changes[1][j].id # last.id
        ELSE /\ last.revoked = <<>>
             /\ \A j \in 1..Len(last.changes) : last.changes[j] = last.pre

\* C2 (as claimed): while the component is mounted, the preview handle of an
\* item that Add created and that is still in the owner's sequence has not
\* been revoked.
C2_NoReleaseWhileItemInSequence ==
    mounted =>
        \A i \in 1..Len(owner) :
            owner[i].preview \in CreatedUrls => revokeCalls[owner[i].preview] = 0

\* C3: every URL createObjectURL returned is passed to URL.revokeObjectURL
\* at most once, whatever Add, Remove, Move, re-render and unmount steps ran
\* (a Remove repeated against the same render included).
C3_RevokedAtMostOnce ==
    \A u \in CreatedUrls : revokeCalls[u] <= 1

\* C3's case: the component was unmounted after a Remove released one of two
\* handles; the unmount released only the other one.
C3_Witness ==
    /\ ~mounted
    /\ last.op = "unmount"
    /\ nextUrl = 2
    /\ Len(last.revoked) = 1
    /\ \A u \in CreatedUrls : revokeCalls[u] = 1

\* C4: once the component has unmounted, every URL createObjectURL ever
\* returned has been passed to URL.revokeObjectURL and the tracked Set of
\* outstanding URLs is empty.
C4_TeardownReleasesAll ==
    ~mounted =>
        /\ generatedUrlsRef = <<>>
        /\ \A u \in CreatedUrls : revokeCalls[u] >= 1

\* C4's case: two handles were outstanding at unmount and the unmount
\* released both.
C4_Witness ==
    /\ ~mounted
    /\ nextUrl = 2
    /\ Len(last.revoked) = 2
    /\ generatedUrlsRef = <<>>

\* isAcceptedType on every file and accept string of the model, computed once.
accepted == [f \in Files |-> [a \in AcceptStrings |-> isAcceptedType(f, a)]]

\* The items a step appended: what its delivered sequence holds after `pre`.
Appended(step) ==
    IF step.changes = <<>> THEN <<>>
    ELSE SubSeq(step.changes[1], Len(step.pre) + 1, Len(step.changes[1]))

\* The number of places of a sequence that hold x.
Occurrences(seq, x) == Cardinality({i \in 1..Len(seq) : seq[i] = x})

\* C5 (as claimed): whatever size bound is configured, 0 included, each file
\* of a batch whose size exceeds the bound is left out of the delivered
\* sequence and Add reports exactly one FILE_TOO_LARGE error for it.
C5_OversizedFileRejectedOnce ==
    AddRan =>
        \A f \in Range(last.files) :
            FileSize(f) > maxFileSize =>
                /\ \A i \in 1..Len(Appended(last)) : Appended(last)[i].file # f
                /\ Cardinality({i \in 1..Len(last.errors) :
                                   last.errors[i] = [code |-> "FILE_TOO_LARGE", file |-> f]})
                       = Occurrences(last.files, f)

\* C6 (as claimed): with maxFiles = N configured, 0 included, and a sequence
\* of length N, Add of any non-empty batch reports exactly one
\* MAX_FILES_EXCEEDED error, delivers nothing and creates no URL.
C6_FullSequenceRejectsBatch ==
    (AddRan /\ maxFiles # Undefined /\ Len(last.pre) = maxFiles /\ Len(last.files) > 0) =>
        /\ ErrorCount(last.errors, "MAX_FILES_EXCEEDED") = 1
        /\ last.changes = <<>>
        /\ last.created = <<>>

\* The files of the last batch that pass validateFile, in input order.
LastValid ==
    SelectSeq(last.files, LAMBDA f : validation[f][maxFileSize][acceptedFileTypes].isValid)

\* C7: when maxFiles is set and the remaining capacity c = maxFiles - length
\* satisfies 0 < c < k, k being the number of files of the batch that pass
\* validation, Add delivers the previous sequence followed by exactly the
\* first c validated files, in input order, and reports exactly one
\* MAX_FILES_EXCEEDED error.
C7_TruncatesToFirstValidFiles ==
    (AddRan /\ maxFiles # Undefined) =>
        LET c == maxFiles - Len(last.pre)
            k == Len(LastValid)
        IN  (0 < c /\ c < k) =>
                /\ Len(last.changes) = 1
                /\ Len(last.changes[1]) = Len(last.pre) + c
                /\ SubSeq(last.changes[1], 1, Len(last.pre)) = last.pre
                /\ \A i \in 1..c : Appended(last)[i].file = LastValid[i]
                /\ ErrorCount(last.errors, "MAX_FILES_EXCEEDED") = 1

\* C7's case: one slot left, a batch whose three files all pass validation
\* and are not all the same file: one is kept, two are dropped.
C7_Witness ==
    /\ AddRan
    /\ maxFiles = 2
    /\ Len(last.pre) = 1
    /\ Len(LastValid) = 3
    /\ LastValid[1] # LastValid[3]
    /\ Len(Appended(last)) = 1
    /\ ErrorCount(last.errors, "MAX_FILES_EXCEEDED") = 1

\* The files of the last batch at or under the size bound that match the
\* accept string, in input order.
LastConforming ==
    SelectSeq(last.files,
              LAMBDA f : FileSize(f) <= maxFileSize /\ accepted[f][acceptedFileTypes])

\* C8 (as claimed): when capacity allows, the sequence Add delivers is the
\* previous sequence followed by the files of the batch that are at or under
\* the size bound and match an accepted pattern, in input order, each with
\* an id no earlier item has and a URL createObjectURL had not returned
\* before (nothing is delivered when there is no such file).
C8_ConformingFilesAppended ==
    AddRan =>
        LET capacity == IF maxFiles = Undefined THEN Infinity ELSE maxFiles - Len(last.pre)
            ok == LastConforming
            new == Appended(last)
        IN  Len(ok) <= capacity =>
                IF ok = <<>> THEN last.changes = <<>>
                ELSE /\ Len(last.changes) = 1
                     /\ SubSeq(last.changes[1], 1, Len(last.pre)) = last.pre
                     /\ Len(new) = Len(ok)
                     /\ \A i \in 1..Len(new) :
                           /\ new[i].file = ok[i]
                           /\ \A j \in 1..Len(last.pre) : last.pre[j].id # new[i].id
                           /\ \A j \in 1..(i - 1) : new[j].id # new[i].id
                           /\ new[i].preview = last.created[i]
                           /\ new[i].preview \in CreatedUrls
                           /\ \A j \in 1..(i - 1) : new[j].preview # new[i].preview

\* C9 (as claimed): while `disabled` is true no Add, Remove or Move that the
\* rendered component receives calls onImagesChange, creates a URL or
\* revokes one.
C9_DisabledBlocksEveryInteraction ==
    (disabled /\ last.op \in {"add", "delete", "move"}) =>
        /\ last.changes = <<>>
        /\ last.created = <<>>
        /\ last.revoked = <<>>

\* The index of the first item of a sequence with this id (0 when none).
IndexOfId(seq, id) ==
    IF \E i \in 1..Len(seq) : seq[i].id = id
    THEN CHOOSE i \in 1..Len(seq) : seq[i].id = id /\ \A j \in 1..(i - 1) : seq[j].id # id
    ELSE 0

\* C10: a drop with distinct source and target ids that both resolve to
\* items delivers one sequence, a permutation of the previous one in which
\* the source item stands at the index the target had and every other item
\* keeps its order relative to the others; any other drop (same id, no
\* target, an id that resolves to no item) delivers nothing.
C10_MoveOnlyReorders ==
    last.op = "move" =>
        LET from == IndexOfId(last.pre, last.id)
            to == IndexOfId(last.pre, last.over)
            others(seq, x) == SelectSeq(seq, LAMBDA it : it # x)
        IN  IF last.over # NoId /\ last.id # last.over /\ from > 0 /\ to > 0
            THEN /\ Len(last.changes) = 1
                 /\ Len(last.changes[1]) = Len(last.pre)
                 /\ last.changes[1][to] = last.pre[from]
                 /\ others(last.changes[1], last.pre[from]) = others(last.pre, last.pre[from])
                 /\ last.revoked = <<>> /\ last.created = <<>>
            ELSE last.changes = <<>>

\* C10's case: in a sequence of three items the first was dropped on the
\* last, so the two others shifted by one.
C10_Witness ==
    /\ last.op = "move"
    /\ Len(last.pre) = 3
    /\ last.id = last.pre[1].id
    /\ last.over = last.pre[3].id
    /\ Len(last.changes) = 1
    /\ last.changes[1] = <<last.pre[2], last.pre[3], last.pre[1]>>

\* The item at the end of a non-empty sequence.
LastItem(seq) == seq[Len(seq)]

\* The render that has just run applied an Add that kept exactly one file:
\* the sequence is the one before that render followed by the item with the
\* id and the URL that were handed out last.
AppliedAddOfOne ==
    /\ last.op \in {"render", "rerender"}
    /\ nextId >= 1
    /\ nextUrl >= 1
    /\ Len(images) = Len(last.pre) + 1
    /\ images = Append(last.pre, LastItem(images))
    /\ LastItem(images).id = generateId(nextId)
    /\ LastItem(images).preview = BlobUrl(nextUrl)

\* C11: an Add that keeps one file makes one createObjectURL call, for a URL
\* that has no revoke call yet; and when the owner has applied that Add and
\* the next step is Remove of the id the Add assigned, Remove delivers the
\* sequence as it was before the Add, no further URL is created, and the
\* item's URL has exactly one URL.revokeObjectURL call and is no longer
\* tracked.
C11_AddThenRemoveRoundTrip ==
    [][/\ (last'.op = "add" /\ Len(last'.changes) = 1
              /\ Len(last'.changes[1]) = Len(last'.pre) + 1) =>
              /\ nextUrl' = nextUrl + 1
              /\ last'.created = <<BlobUrl(nextUrl')>>
              /\ LastItem(last'.changes[1]).preview = BlobUrl(nextUrl')
              /\ revokeCalls'[BlobUrl(nextUrl')] = 0
       /\ (AppliedAddOfOne /\ last'.op = "delete" /\ last'.id = generateId(nextId)) =>
              /\ last'.changes = <<last.pre>>
              /\ owner' = last.pre
              /\ nextUrl' = nextUrl
              /\ revokeCalls'[BlobUrl(nextUrl)] = 1
              /\ BlobUrl(nextUrl) \notin Range(generatedUrlsRef')
      ]_vars

\* C11's case: the item that was added last, standing after one earlier
\* item, was removed: the earlier item alone is delivered and the removed
\* item's URL was revoked by this Remove.
C11_Witness ==
    /\ last.op = "delete"
    /\ nextId >= 1
    /\ last.id = generateId(nextId)
    /\ Len(last.pre) = 2
    /\ last.pre[2].id = last.id
    /\ last.pre[2].preview = BlobUrl(nextUrl)
    /\ last.changes = <<SubSeq(last.pre, 1, 1)>>
    /\ last.revoked = <<BlobUrl(nextUrl)>>
    /\ revokeCalls[BlobUrl(nextUrl)] = 1

\* Whether a sequence holds an item with this id.
HasId(seq, id) == \E i \in 1..Len(seq) : seq[i].id = id

\* The last step was an Add, Remove or Move with an effect on the sequence:
\* an Add that kept a file, a Remove of an id that is in the sequence, a
\* Move between two different items of the sequence.
EffectiveChange ==
    CASE last.op = "add" -> last.created # <<>>
      [] last.op = "delete" -> HasId(last.pre, last.id)
      [] last.op = "move" -> /\ last.over # NoId
                             /\ last.id # last.over
                             /\ HasId(last.pre, last.id)
                             /\ HasId(last.pre, last.over)
      [] OTHER -> FALSE

\* C12 (as claimed): an Add, Remove or Move calls onImagesChange exactly
\* when it changes the sequence, once, with a sequence that differs from
\* the previous one; an Add that keeps no file, a Remove of an id that is
\* not in the sequence and a Move with equal or unresolved ids do not call
\* it.
C12_ChangeCallbackExactlyOnEffectiveChange ==
    last.op \in {"add", "delete", "move"} =>
        IF EffectiveChange
        THEN Len(last.changes) = 1 /\ last.changes[1] # last.pre
        ELSE last.changes = <<>>

\* The patterns of a comma-separated accept list: its pieces, trimmed, the
\* empty ones left out.
ListedPatterns(list) ==
    LET parts == split(trim(list), ",")
        trimmed == [i \in 1..Len(parts) |-> trim(parts[i])]
    IN  SelectSeq(trimmed, LAMBDA q : q # <<>>)

\* A pattern matches a file: the universal wildcard, a wildcard subtype
\* whose `type/` begins the file's MIME type, an extension that ends the
\* file's name whatever the case, or the file's MIME type itself.
PatternMatchesFile(file, pattern) ==
    LET q == toLowerCase(pattern)
    IN  \/ q = <<"*","/","*">>
        \/ /\ endsWith(q, <<"/","*">>)
           /\ startsWith(toLowerCase(FileType(file)), SubSeq(q, 1, Len(q) - 1))
        \/ /\ startsWith(q, <<".">>)
           /\ endsWith(toLowerCase(FileName(file)), q)
        \/ /\ ~endsWith(q, <<"/","*">>)
           /\ ~startsWith(q, <<".">>)
           /\ toLowerCase(FileType(file)) = q

\* C13 (as claimed): for a non-blank accept list and a file within the size
\* bound, validateFile accepts the file exactly when some pattern of the
\* list matches it, and otherwise rejects it with one INVALID_TYPE error
\* for that file; so a file with an empty declared type is rejected by the
\* list `image/png,`.
C13_AcceptedExactlyWhenSomePatternMatches ==
    (last.op = "validate" /\ trim(acceptedFileTypes) # <<>>
        /\ ~tooLarge(last.files[1], maxFileSize)) =>
        LET file == last.files[1]
            patterns == ListedPatterns(acceptedFileTypes)
        IN  IF \E i \in 1..Len(patterns) : PatternMatchesFile(file, patterns[i])
            THEN last.errors = <<>>
            ELSE last.errors = <<[code |-> "INVALID_TYPE", file |-> file]>>

\* The number of URL.revokeObjectURL calls of the last step that threw: each
\* makes one console.warn in safeRevokeObjectURL and, at unmount, a second
\* one in the sink of useObjectURLs' effect.
FailedReleases == IF last.op = "unmount" THEN last.warns \div 2 ELSE last.warns

\* C14 (as claimed): in a Remove and in the unmount, every
\* URL.revokeObjectURL call that throws results in exactly one onError call,
\* with code UNKNOWN, and the step reports nothing else.
C14_ReleaseFailureReportedOnce ==
    last.op \in {"delete", "unmount"} =>
        /\ ErrorCount(last.errors, "UNKNOWN") = FailedReleases
        /\ Len(last.errors) = FailedReleases

\* The file's size is above the configured bound (no bound when not given).
ExceedsBound(file) == maxFileSize # Undefined /\ FileSize(file) > maxFileSize

\* C15 (as claimed): one validateFile call yields at most one error: for a
\* file above the size bound, 0 included, exactly one FILE_TOO_LARGE error
\* whatever its type; for a file within the bound no error or one
\* INVALID_TYPE error; and the call creates no URL, delivers no sequence
\* and leaves the sequence and the tracked URLs as they were.
C15_OneErrorPerRejectedFileSizeFirst ==
    last.op = "validate" =>
        LET file == last.files[1]
        IN  /\ Len(last.errors) <= 1
            /\ ExceedsBound(file) =>
                   last.errors = <<[code |-> "FILE_TOO_LARGE", file |-> file]>>
            /\ ~ExceedsBound(file) =>
                   last.errors \in {<<>>, <<[code |-> "INVALID_TYPE", file |-> file]>>}
            /\ last.created = <<>> /\ last.changes = <<>> /\ last.revoked = <<>>
            /\ images = last.pre /\ owner = last.pre
            /\ generatedUrlsRef = <<>> /\ nextUrl = 0

\* C16: when the URL.revokeObjectURL call of a Remove throws, the Remove
\* still completes: the URL it tried to revoke is no longer tracked, and
\* onImagesChange is called once with the previous sequence without the
\* item of that id, the other items in their order.
C16_FailedReleaseDoesNotAbortRemove ==
    (last.op = "delete" /\ last.warns >= 1) =>
        /\ Len(last.revoked) = 1
        /\ last.revoked[1] \notin Range(generatedUrlsRef)
        /\ Len(last.changes) = 1
        /\ ~HasId(last.changes[1], last.id)
        /\ last.changes[1] = SelectSeq(last.pre, LAMBDA img : img.id # last.id)
        /\ Len(last.changes[1]) = Len(last.pre) - 1
        /\ owner = last.changes[1]

\* C16's case: the second of two items was removed while the revoke call on
\* its preview threw: the first item alone is delivered, one UNKNOWN error
\* is reported and nothing is tracked for the removed item.
C16_Witness ==
    /\ last.op = "delete"
    /\ last.warns = 1
    /\ last.errors = <<UnknownError>>
    /\ Len(last.pre) = 2
    /\ last.id = last.pre[2].id
    /\ last.revoked = <<last.pre[2].preview>>
    /\ last.changes = <<SubSeq(last.pre, 1, 1)>>
    /\ last.pre[2].preview \notin Range(generatedUrlsRef)

\* C17: when a Remove finds its item and passes the item's preview to
\* useObjectURLs.revokeObjectURL while that URL is not in the tracked Set
\* (the owner made it, or this manager created it and has revoked it),
\* the release does nothing: no URL.revokeObjectURL call, no error, no
\* console.warn, and the Set and the browser's revoke counts stay as they
\* were.
C17_ReleaseOfUntrackedHandleIsNoOp ==
    [][(/\ last'.op = "delete"
        /\ HasId(images, last'.id)
        /\ images[findIndex(images, last'.id)].preview \notin Range(generatedUrlsRef)) =>
           /\ last'.revoked = <<>>
           /\ last'.errors = <<>>
           /\ last'.warns = 0
           /\ generatedUrlsRef' = generatedUrlsRef
           /\ revokeCalls' = revokeCalls
      ]_vars

\* C17's case: a Remove of an item whose preview this manager created and
\* had already revoked once made no second revoke call, while another URL
\* was still tracked and stayed tracked.
C17_Witness ==
    /\ last.op = "delete"
    /\ HasId(last.pre, last.id)
    /\ last.pre[findIndex(last.pre, last.id)].preview \in CreatedUrls
    /\ last.revoked = <<>>
    /\ last.errors = <<>>
    /\ revokeCalls[last.pre[findIndex(last.pre, last.id)].preview] = 1
    /\ generatedUrlsRef # <<>>

\* Every tracked URL is the preview of an item of the owner's sequence.
TrackedUrlsAreShown ==
    \A u \in Range(generatedUrlsRef) : \E i \in 1..Len(owner) : owner[i].preview = u

\* An item this component's Add appended leaves the owner's sequence only
\* by a Remove of its id.
AddedItemsStayUntilRemoved ==
    \A i \in 1..Len(owner) :
        (owner[i].preview \in CreatedUrls /\ ~HasId(owner', owner[i].id)) =>
            (last'.op = "delete" /\ last'.id = owner[i].id)

\* C18 (as claimed): whatever the interleaving of Add, Remove and Move
\* callbacks with the owner's re-renders, two callbacks against the same
\* render included, every tracked URL is the preview of an item of the
\* sequence and an item that Add appended stays in the sequence until a
\* Remove of its id.
C18_NoLeakNoLostItemUnderStaleRenders ==
    /\ [](mounted => TrackedUrlsAreShown)
    /\ [][AddedItemsStayUntilRemoved]_vars

\* C19: with maxFiles = N >= 1 and a sequence of at most N items at mount,
\* neither the sequence the owner holds nor the one the component renders
\* ever has more than N items, whatever Add, Remove and Move steps ran.
C19_LengthNeverExceedsMaxFiles ==
    maxFiles >= 1 => (Len(owner) <= maxFiles /\ Len(images) <= maxFiles)

\* C19's case: with maxFiles = 2 and one item in the sequence, an Add of a
\* batch with more than one valid file filled the sequence to exactly 2
\* items and reported the files it dropped.
C19_Witness ==
    /\ maxFiles = 2
    /\ AddRan
    /\ Len(last.pre) = 1
    /\ Len(LastValid) >= 2
    /\ Len(owner) = 2
    /\ ErrorCount(last.errors, "MAX_FILES_EXCEEDED") = 1

\* The files of the last batch that validateFile rejects, in input order.
LastRejected ==
    SelectSeq(last.files, LAMBDA f : ~validation[f][maxFileSize][acceptedFileTypes].isValid)

\* C20: the calls one Add makes to the callback props are, in this order:
\* one onError call per rejected file, in the order of the files in the
\* batch, each with that file and FILE_TOO_LARGE or INVALID_TYPE; then at
\* most one onError call with MAX_FILES_EXCEEDED; then at most one
\* onImagesChange call, with the sequence the owner receives.
C20_AddReportsErrorsBeforeChange ==
    AddRan =>
        LET calls == last.calls
            r == Len(LastRejected)
            rest == SubSeq(calls, r + 1, Len(calls))
            limit == OnErrorCall(MaxFilesExceeded)
        IN  /\ Len(calls) >= r
            /\ \A i \in 1..r :
                   /\ calls[i].fn = "onError"
                   /\ calls[i].arg.code \in {"FILE_TOO_LARGE", "INVALID_TYPE"}
                   /\ calls[i].arg.file = LastRejected[i]
            /\ \/ rest = <<>>
               \/ rest = <<limit>>
               \/ Len(rest) = 1 /\ rest[1].fn = "onImagesChange"
               \/ Len(rest) = 2 /\ rest[1] = limit /\ rest[2].fn = "onImagesChange"
            /\ \A i \in 1..Len(rest) :
                   rest[i].fn = "onImagesChange" =>
                       (last.changes = <<rest[i].arg>> /\ owner = rest[i].arg)

\* C20's case: a batch of a rejected file followed by two valid ones, with
\* one slot left: the validation error, then MAX_FILES_EXCEEDED, then the
\* one onImagesChange call.
C20_Witness ==
    /\ AddRan
    /\ Len(last.files) = 3
    /\ LastRejected = <<last.files[1]>>
    /\ Len(last.calls) = 3
    /\ last.calls[1].fn = "onError"
    /\ last.calls[1].arg.file = last.files[1]
    /\ last.calls[2] = OnErrorCall(MaxFilesExceeded)
    /\ last.calls[3].fn = "onImagesChange"
    /\ Len(last.calls[3].arg) = Len(last.pre) + 1

\* C21: the sequence an Add delivers begins with the previous sequence,
\* item for item; the Add makes one createObjectURL call per item it
\* appends, each returning a URL no other item has, and the appended items
\* are validated files of the batch, in order, no more than the capacity
\* maxFiles leaves: no URL is created for a file that validateFile rejected
\* or that the truncation dropped, and none when nothing is delivered.
C21_AddKeepsPrefixAndCreatesOnlyForKept ==
    last.op = "add" =>
        LET new == Appended(last)
        IN  /\ Len(last.changes) <= 1
            /\ last.changes # <<>> =>
                   /\ Len(last.changes[1]) >= Len(last.pre)
                   /\ SubSeq(last.changes[1], 1, Len(last.pre)) = last.pre
            /\ Len(last.created) = Len(new)
            /\ Len(new) <= Len(LastValid)
            /\ maxFiles >= 1 => Len(new) <= Max(0, maxFiles - Len(last.pre))
            /\ \A i \in 1..Len(new) :
                   /\ new[i].file = LastValid[i]
                   /\ new[i].preview = last.created[i]
                   /\ last.created[i] \in CreatedUrls
                   /\ \A j \in 1..(i - 1) : last.created[j] # last.created[i]
                   /\ \A j \in 1..Len(last.pre) : last.pre[j].preview # last.created[i]

\* C21's case: onto a sequence of one item, with no maxFiles, a batch of
\* two valid files and one rejected file was added: two URLs were created,
\* for the two valid files, and the earlier item stands first, unchanged.
C21_Witness ==
    /\ AddRan
    /\ maxFiles = Undefined
    /\ Len(last.pre) = 1
    /\ Len(last.files) = 3
    /\ Len(LastValid) = 2
    /\ Len(last.created) = 2
    /\ last.created[1] # last.created[2]
    /\ Len(last.changes) = 1
    /\ last.changes[1][1] = last.pre[1]
    /\ Len(last.changes[1]) = 3

====
